---- MODULE Spec2Model ----
(***************************************************************************)
(* A model of wallDist.cc: the Step4<dim> pipeline (make_grid,             *)
(* setup_system, assemble_system, solve, output_results) and the           *)
(* Postprocessor<dim> that turns (u, grad u) samples into                  *)
(* (grad u, sMin, sMax).                                                   *)
(*                                                                         *)
(* Arithmetic.  Doubles are modelled by exact numbers.  Inputs are small   *)
(* integers; a value that has passed through std::sqrt is kept in the      *)
(* closed form  sqrt(rad) + off  with integer rad >= 0 and integer off, so *)
(* that comparisons of the outputs are decided exactly.  Rounding of the   *)
(* double operations is not modelled.                                      *)
(*                                                                         *)
(* Build type.  deal.II's checking macro (lines 336-338, 351) is active    *)
(* in a debug build, where a failed check aborts the program, and expands  *)
(* to nothing in a release build.  The build is the variable debug.        *)
(***************************************************************************)
EXTENDS Integers, Sequences, FiniteSets, TLC

VARIABLES
    pc,                   \* position of the single thread of control
    ret,                  \* where compute_derived_quantities_scalar returns to
    dim,                  \* the template parameter of Step4 and Postprocessor
    debug,                \* TRUE: a build in which the checking macro is active
    exc,                  \* the uncaught exception / abort that ended the program
    oob,                  \* TRUE once an element outside a container was accessed
    \* ---- Step4 members and locals (full-size run)
    call,                 \* index into run_order of the function run() is at
    trace,                \* the pipeline stages entered so far, in order
    console,              \* the lines written to std::cout
    triangulation,        \* [active |-> set of cells, n_cells |-> all cells]
    n_dofs,               \* dof_handler.n_dofs()
    sys,                  \* status of system_matrix / system_rhs / solution
    cell,                 \* assemble_system: number of cells already scattered
    cg_step,              \* solver_control's step counter
    vtk,                  \* the output file
    \* ---- Postprocessor::compute_derived_quantities_scalar
    n_quadrature_points,  \* uh.size()
    uh,                   \* the elements of uh read so far
    duh,                  \* the elements of duh read so far
    computed_quantities,  \* the output vectors
    q,                    \* the loop index
    \* ---- assembly on a small mesh
    table,                \* which FEValues table the cells use
    system_matrix,
    system_rhs,
    solution,
    boundary_values,      \* the map filled by interpolate_boundary_values
    bv_done,              \* apply_boundary_values: entries of the map already applied
    cgv                   \* SolverCG's work vectors

vars == <<pc, ret, dim, debug, exc, oob, call, trace, console, triangulation, n_dofs, sys,
          cell, cg_step, vtk, n_quadrature_points, uh, duh, computed_quantities, q,
          table, system_matrix, system_rhs, solution, boundary_values, bv_done, cgv>>

post_vars == <<n_quadrature_points, uh, duh, computed_quantities, q>>
asm_vars == <<table, system_matrix, system_rhs, solution, boundary_values, bv_done, cgv>>
run_vars == <<call, trace, console, triangulation, n_dofs, sys, cell, cg_step, vtk>>

(***************************************************************************)
(* Bounds of the model.                                                    *)
(***************************************************************************)
\* the largest number of evaluation points handed to the post-processor
MaxPoints == 2

\* the values u and the gradient components are drawn from
InputVals == {0 - 1, 0, 1}

(***************************************************************************)
(* Exact arithmetic on values of the form sqrt(rad) + off.                 *)
(***************************************************************************)
NaN == [nan |-> TRUE, rad |-> 0, off |-> 0]
Num(k) == [nan |-> FALSE, rad |-> 0, off |-> k]
Zero == Num(0)

Max(a, b) == IF a >= b THEN a ELSE b
Abs(a) == IF a >= 0 THEN a ELSE 0 - a

\* std::sqrt of an exact integer: NaN for a negative argument
Sqrt(r) == IF r < 0 THEN NaN ELSE [nan |-> FALSE, rad |-> r, off |-> 0]
Plus(v, k) == IF v.nan THEN NaN ELSE [v EXCEPT !.off = v.off + k]
Minus(v, k) == IF v.nan THEN NaN ELSE [v EXCEPT !.off = v.off - k]

\* sqrt(ra) >= sqrt(rb) + d, for ra, rb >= 0
RootGeq(ra, rb, d) ==
    IF d <= 0
    THEN \/ ra >= rb
         \/ LET e == 0 - d      \* sqrt(rb) - sqrt(ra) <= e, with rb > ra
                m == rb + ra - e * e
            IN  m <= 0 \/ m * m <= 4 * ra * rb
    ELSE /\ ra >= rb
         /\ LET m == ra + rb - d * d
            IN  m >= 0 /\ m * m >= 4 * ra * rb

\* a >= b; false as soon as one side is NaN, as for doubles
Geq(a, b) == ~a.nan /\ ~b.nan /\ RootGeq(a.rad, b.rad, b.off - a.off)
Equal(a, b) == Geq(a, b) /\ Geq(b, a)

(***************************************************************************)
(* Postprocessor<dim>                                                      *)
(***************************************************************************)
\* duh[q] * duh[q], line 342
l2_square(g) ==
    LET RECURSIVE Sum(_)
        Sum(d) == IF d = 0 THEN 0 ELSE g[d] * g[d] + Sum(d - 1)
    IN  Sum(Len(g))

\* the value of l1 after the loop of lines 345-349
l1(g) ==
    LET RECURSIVE Sum(_)
        Sum(d) == IF d = 0 THEN 0 ELSE Abs(g[d]) + Sum(d - 1)
    IN  Sum(Len(g))

\* the radicand of lines 351, 353 and 355
Radicand(u, g) == l2_square(g) + 2 * u

\* line 353 without the std::max
SMinNoClamp(u, g) == Minus(Sqrt(Radicand(u, g)), l1(g))
\* line 353
SMin(u, g) == Minus(Sqrt(Max(Radicand(u, g), 0)), l1(g))

\* line 355 with the sign of line 353
SMaxMinus(u, g) == Minus(Sqrt(Max(Radicand(u, g), 0)), l1(g))
\* line 355
SMax(u, g) == Plus(Sqrt(Max(Radicand(u, g), 0)), l1(g))

\* get_names, lines 361-375
get_names(d) == [i \in 1..d |-> "Diretion"] \o <<"sMin", "sMax">>

\* get_data_component_interpretation, lines 378-394
get_data_component_interpretation(d) ==
    [i \in 1..d |-> "component_is_part_of_vector"]
        \o <<"component_is_scalar", "component_is_scalar">>

\* get_needed_update_flags, lines 398-404
get_needed_update_flags == {"update_values", "update_gradients"}

\* a Vector<double>(dim + 2) as DataOut allocates it: all zero
ZeroVector(d) == [i \in 1..(d + 2) |-> IF i <= d THEN 0 ELSE Zero]

\* the gradients the model feeds in
Gradients(d) == [1..d -> InputVals]

\* index i (0-based, as in the source) lies inside a container of size n
InBounds(i, n) == 0 <= i /\ i < n

(* Lines 334-338.  The three size checks are evaluated in a debug build    *)
(* only.  The callers of the model pass containers of equal size, so the   *)
(* checks of lines 336 and 337 pass; the check of line 338 evaluates       *)
(* computed_quantities[0], which is no element when the vector is empty:   *)
(* the read is undefined and the check may then pass or fail.              *)
PostEnter ==
    /\ pc = "pp_enter"
    /\ q' = 0
    /\ IF debug
       THEN IF InBounds(0, Len(computed_quantities))
            THEN /\ oob' = oob
                 /\ IF Len(computed_quantities[1]) = dim + 2
                    THEN pc' = "pp_loop" /\ exc' = exc
                    ELSE pc' = "terminated" /\ exc' = "ExcInternalError"
            ELSE /\ oob' = TRUE
                 /\ \E passes \in BOOLEAN :
                      IF passes
                      THEN pc' = "pp_loop" /\ exc' = exc
                      ELSE pc' = "terminated" /\ exc' = "ExcInternalError"
       ELSE pc' = "pp_loop" /\ exc' = exc /\ oob' = oob
    /\ UNCHANGED <<ret, dim, debug, n_quadrature_points, uh, duh, computed_quantities>>
    /\ UNCHANGED run_vars
    /\ UNCHANGED asm_vars

(* One pass of the loop of lines 340-356 for the point q, whose inputs     *)
(* uh[q] and duh[q] are read here.  In a debug build the check of line 351 *)
(* aborts after the gradient has been copied and before sMin and sMax are  *)
(* stored.                                                                 *)
PostPoint ==
    /\ pc = "pp_loop"
    /\ q < n_quadrature_points
    /\ \E u \in InputVals, g \in Gradients(dim) :
         LET old == computed_quantities[q + 1]
             copied == [d \in 1..(dim + 2) |-> IF d <= dim THEN g[d] ELSE old[d]]
             stored == [copied EXCEPT ![dim + 1] = SMin(u, g),
                                      ![dim + 2] = SMax(u, g)]
         IN  /\ uh' = Append(uh, u)
             /\ duh' = Append(duh, g)
             /\ oob' = (oob \/ ~InBounds(q, Len(computed_quantities)))
             /\ IF debug /\ Radicand(u, g) < 0
                THEN /\ computed_quantities' =
                            [computed_quantities EXCEPT ![q + 1] = copied]
                     /\ exc' = "ExcMessage: Sqrt of negative!"
                     /\ pc' = "terminated"
                     /\ q' = q
                ELSE /\ computed_quantities' =
                            [computed_quantities EXCEPT ![q + 1] = stored]
                     /\ exc' = exc
                     /\ pc' = pc
                     /\ q' = q + 1
    /\ UNCHANGED <<ret, dim, debug, n_quadrature_points>>
    /\ UNCHANGED run_vars
    /\ UNCHANGED asm_vars

\* the loop ends and the function returns, line 357
PostReturn ==
    /\ pc = "pp_loop"
    /\ ~(q < n_quadrature_points)
    /\ pc' = ret
    /\ UNCHANGED <<ret, dim, debug, exc, oob>>
    /\ UNCHANGED post_vars
    /\ UNCHANGED run_vars
    /\ UNCHANGED asm_vars

(***************************************************************************)
(* Step4<dim>: the full-size run of main().                                *)
(***************************************************************************)
\* refine_global with one refinement fewer
n_refinements_three == 4 - 1
\* refine_global (4), line 164
n_refinements == 4
\* fe (2), line 154
fe_degree == 2
\* SolverControl solver_control (1000, 1e-12), line 267
max_steps == 1000

\* run() with solve() called before assemble_system()
run_order_swapped ==
    <<"make_grid", "setup_system", "solve", "assemble_system", "output_results">>
\* the calls of run(), lines 308-312
run_order ==
    <<"make_grid", "setup_system", "assemble_system", "solve", "output_results">>

\* the stages of the pipeline, in the order the specification gives them
StageOrder ==
    <<"Start", "MeshBuilt", "DOFsDistributed", "SystemAllocated", "SystemAssembled",
      "BoundaryApplied", "Solved", "OutputWritten", "Done">>

\* run() is about to call f
AtCall(f) == pc = "run" /\ call <= Len(run_order) /\ run_order[call] = f

\* a solve() that catches the solver's exception and carries on
CatchesNoConvergenceInSolve == TRUE
\* neither solve() (264-279), run() (303-313) nor main() (408-421) has a handler
CatchesNoConvergence == FALSE

\* GridGenerator::hyper_cube (triangulation, -1, 1): one cell, level 0
hyper_cube(d) ==
    [level |-> 0, active |-> {[k \in 1..d |-> 0]}, n_cells |-> 1]

\* the 2^dim children of a cell: every coordinate is bisected
Children(c) ==
    {[k \in DOMAIN c |-> 2 * c[k] + b[k]] : b \in [DOMAIN c -> {0, 1}]}

\* one global refinement: every active cell is replaced by its children
refine_once(t) ==
    LET kids == UNION {Children(c) : c \in t.active}
    IN  [level |-> t.level + 1, active |-> kids,
         n_cells |-> t.n_cells + Cardinality(kids)]

\* the Lagrange nodes of cell c for degree p, on the grid of spacing h/p
NodesOf(c, p) ==
    {[k \in DOMAIN c |-> p * c[k] + a[k]] : a \in [DOMAIN c -> 0..p]}

AllNodes(t, p) == UNION {NodesOf(c, p) : c \in t.active}

\* number of grid positions per axis at refinement level l for degree p
Width(l, p) == p * (2 ^ l) + 1

\* the global index of the node at grid position x: lexicographic rank
GlobalIndex(x, w) ==
    LET RECURSIVE Rank(_)
        Rank(k) == IF k = 0 THEN 0 ELSE x[k] + w * Rank(k - 1)
    IN  Rank(Len(x))

\* dof_handler.distribute_dofs (fe): one index per distinct node
distribute_dofs(t, p) ==
    [x \in AllNodes(t, p) |-> GlobalIndex(x, Width(t.level, p))]

NoFile == [written |-> FALSE, name |-> "", names |-> <<>>,
           interpretation |-> <<>>, solution |-> "", data |-> <<>>]

Enter(stage) == trace' = Append(trace, stage)
Cout(line) == console' = Append(console, line)
Return == pc' = "run" /\ call' = call + 1

\* run(), line 306
RunBegin ==
    /\ pc = "main"
    /\ Cout(<<"Solving problem in space dimensions", dim>>)
    /\ pc' = "run"
    /\ UNCHANGED <<ret, dim, debug, exc, oob, call, trace, triangulation, n_dofs, sys, cell,
                   cg_step, vtk>>
    /\ UNCHANGED post_vars
    /\ UNCHANGED asm_vars

\* make_grid, line 163
HyperCube ==
    /\ AtCall("make_grid")
    /\ triangulation' = hyper_cube(dim)
    /\ pc' = "refine_global"
    /\ UNCHANGED <<ret, dim, debug, exc, oob, call, trace, console, n_dofs, sys, cell, cg_step, vtk>>
    /\ UNCHANGED post_vars
    /\ UNCHANGED asm_vars

\* make_grid, line 164: one of the refinements of refine_global
RefineGlobal ==
    /\ pc = "refine_global"
    /\ triangulation.level < n_refinements
    /\ triangulation' = refine_once(triangulation)
    /\ UNCHANGED <<pc, ret, dim, debug, exc, oob, call, trace, console, n_dofs, sys, cell, cg_step, vtk>>
    /\ UNCHANGED post_vars
    /\ UNCHANGED asm_vars

\* make_grid, lines 166-172: the counts are printed and make_grid returns
MakeGridReturn ==
    /\ pc = "refine_global"
    /\ ~(triangulation.level < n_refinements)
    /\ Cout(<<"Number of active cells / Total number of cells",
               Cardinality(triangulation.active), triangulation.n_cells>>)
    /\ Enter("MeshBuilt")
    /\ Return
    /\ UNCHANGED <<ret, dim, debug, exc, oob, triangulation, n_dofs, sys, cell, cg_step, vtk>>
    /\ UNCHANGED post_vars
    /\ UNCHANGED asm_vars

\* setup_system, lines 178-182
DistributeDofs ==
    /\ AtCall("setup_system")
    /\ n_dofs' = Cardinality(DOMAIN distribute_dofs(triangulation, fe_degree))
    /\ Cout(<<"Number of degrees of freedom", n_dofs'>>)
    /\ Enter("DOFsDistributed")
    /\ pc' = "setup_alloc"
    /\ UNCHANGED <<ret, dim, debug, exc, oob, call, triangulation, sys, cell, cg_step, vtk>>
    /\ UNCHANGED post_vars
    /\ UNCHANGED asm_vars

\* setup_system, lines 184-191: sparsity pattern, matrix and vectors
SetupAlloc ==
    /\ pc = "setup_alloc"
    /\ sys' = [matrix |-> "allocated", solution |-> "zero"]
    /\ UNCHANGED console
    /\ Enter("SystemAllocated")
    /\ Return
    /\ UNCHANGED <<ret, dim, debug, exc, oob, triangulation, n_dofs, cell, cg_step, vtk>>
    /\ UNCHANGED post_vars
    /\ UNCHANGED asm_vars

\* assemble_system, lines 199-217
AssembleBegin ==
    /\ AtCall("assemble_system")
    /\ cell' = 0
    /\ pc' = "cell_loop"
    /\ UNCHANGED <<ret, dim, debug, exc, oob, call, trace, console, triangulation, n_dofs, sys,
                   cg_step, vtk>>
    /\ UNCHANGED post_vars
    /\ UNCHANGED asm_vars

\* assemble_system, lines 219-248: one cell is integrated and scattered
AssembleCell ==
    /\ pc = "cell_loop"
    /\ cell < Cardinality(triangulation.active)
    /\ cell' = cell + 1
    /\ sys' = [sys EXCEPT !.matrix = "assembling"]
    /\ UNCHANGED <<pc, ret, dim, debug, exc, oob, call, trace, console, triangulation, n_dofs,
                   cg_step, vtk>>
    /\ UNCHANGED post_vars
    /\ UNCHANGED asm_vars

\* assemble_system: cell == endc
AssembleLoopEnd ==
    /\ pc = "cell_loop"
    /\ ~(cell < Cardinality(triangulation.active))
    /\ sys' = [sys EXCEPT !.matrix = "assembled"]
    /\ UNCHANGED console
    /\ Enter("SystemAssembled")
    /\ pc' = "boundary"
    /\ UNCHANGED <<ret, dim, debug, exc, oob, call, triangulation, n_dofs, cell, cg_step, vtk>>
    /\ UNCHANGED post_vars
    /\ UNCHANGED asm_vars

\* assemble_system, lines 251-259
ApplyBoundary ==
    /\ pc = "boundary"
    /\ sys' = [matrix |-> "eliminated", solution |-> "preset"]
    /\ UNCHANGED console
    /\ Enter("BoundaryApplied")
    /\ Return
    /\ UNCHANGED <<ret, dim, debug, exc, oob, triangulation, n_dofs, cell, cg_step, vtk>>
    /\ UNCHANGED post_vars
    /\ UNCHANGED asm_vars

\* solve, lines 267-271
SolveBegin ==
    /\ AtCall("solve")
    /\ cg_step' = 0
    /\ pc' = "cg"
    /\ UNCHANGED <<ret, dim, debug, exc, oob, call, trace, console, triangulation, n_dofs, sys,
                   cell, vtk>>
    /\ UNCHANGED post_vars
    /\ UNCHANGED asm_vars

(* solve, line 273: solver_control.check (step, residual) and, unless it   *)
(* ends the iteration, one more CG step.  The residual is not computed:    *)
(* whether it is below the tolerance is a choice.  The check returns       *)
(* success when the residual is small, failure when step >= max_steps, and *)
(* SolverCG::solve throws SolverControl::NoConvergence on failure.         *)
SolveCheck ==
    /\ pc = "cg"
    /\ \E small \in BOOLEAN :
         IF small
         THEN /\ sys' = [sys EXCEPT !.solution = "converged"]
              /\ pc' = "report"
              /\ UNCHANGED <<cg_step, exc>>
         ELSE IF cg_step >= max_steps
              THEN /\ sys' = [sys EXCEPT !.solution = "unconverged"]
                   /\ IF CatchesNoConvergence
                      THEN pc' = "report" /\ exc' = exc
                      ELSE pc' = "terminated" /\ exc' = "SolverControl::NoConvergence"
                   /\ UNCHANGED cg_step
              ELSE /\ cg_step' = cg_step + 1
                   /\ sys' = [sys EXCEPT !.solution = "iterate"]
                   /\ UNCHANGED <<pc, exc>>
    /\ UNCHANGED <<ret, dim, debug, oob, call, trace, console, triangulation, n_dofs, cell, vtk>>
    /\ UNCHANGED post_vars
    /\ UNCHANGED asm_vars

\* solve, lines 276-279: last_step() is printed; solver_control goes out of scope
SolveReport ==
    /\ pc = "report"
    /\ cg_step' = 0
    /\ Cout(<<"CG iterations needed to obtain convergence.">>)
    /\ Enter("Solved")
    /\ Return
    /\ UNCHANGED <<ret, dim, debug, exc, oob, triangulation, n_dofs, sys, cell, vtk>>
    /\ UNCHANGED post_vars
    /\ UNCHANGED asm_vars

(* output_results, lines 286-292: build_patches evaluates the solution and *)
(* its gradient at the points of the patches and hands them to the         *)
(* post-processor.  The post-processor keeps no state between calls, so    *)
(* the points of all patches are handed over in one call.                  *)
BuildPatches ==
    /\ AtCall("output_results")
    /\ \E n \in 1..MaxPoints :
         /\ n_quadrature_points' = n
         /\ computed_quantities' = [i \in 1..n |-> ZeroVector(dim)]
    /\ uh' = <<>>
    /\ duh' = <<>>
    /\ q' = 0
    /\ ret' = "write_vtk"
    /\ pc' = "pp_enter"
    /\ UNCHANGED <<dim, debug, exc, oob>>
    /\ UNCHANGED run_vars
    /\ UNCHANGED asm_vars

\* output_results, lines 294-298
WriteVtk ==
    /\ pc = "write_vtk"
    /\ vtk' = [written |-> TRUE,
               name |-> IF dim = 2 THEN "solution-2d.vtk" ELSE "solution-3d.vtk",
               names |-> <<"solution">> \o get_names(dim),
               interpretation |->
                   <<"component_is_scalar">> \o get_data_component_interpretation(dim),
               solution |-> sys.solution,
               data |-> computed_quantities]
    /\ UNCHANGED console
    /\ Enter("OutputWritten")
    /\ Return
    /\ UNCHANGED <<ret, dim, debug, exc, oob, triangulation, n_dofs, sys, cell, cg_step>>
    /\ UNCHANGED post_vars
    /\ UNCHANGED asm_vars

\* run() returns to main(), line 313
RunReturn ==
    /\ pc = "run"
    /\ call > Len(run_order)
    /\ UNCHANGED console
    /\ Enter("Done")
    /\ pc' = "done"
    /\ UNCHANGED <<ret, dim, debug, exc, oob, call, triangulation, n_dofs, sys, cell,
                   cg_step, vtk>>
    /\ UNCHANGED post_vars
    /\ UNCHANGED asm_vars

NoSystem == <<>>

\* main(), lines 408-414: Step4<2> is constructed
Init ==
    /\ pc = "main"
    /\ ret = "write_vtk"
    /\ dim = 2
    /\ debug \in BOOLEAN
    /\ exc = "none"
    /\ oob = FALSE
    /\ call = 1
    /\ trace = <<"Start">>
    /\ console = <<>>
    /\ triangulation = [level |-> 0, active |-> {}, n_cells |-> 0]
    /\ n_dofs = 0
    /\ sys = [matrix |-> "empty", solution |-> "empty"]
    /\ cell = 0
    /\ cg_step = 0
    /\ vtk = NoFile
    /\ n_quadrature_points = 0
    /\ uh = <<>>
    /\ duh = <<>>
    /\ computed_quantities = <<>>
    /\ q = 0
    /\ table = 0
    /\ system_matrix = NoSystem
    /\ system_rhs = NoSystem
    /\ solution = NoSystem
    /\ boundary_values = NoSystem
    /\ bv_done = 0
    /\ cgv = NoSystem

Next ==
    \/ RunBegin
    \/ HyperCube
    \/ RefineGlobal
    \/ MakeGridReturn
    \/ DistributeDofs
    \/ SetupAlloc
    \/ AssembleBegin
    \/ AssembleCell
    \/ AssembleLoopEnd
    \/ ApplyBoundary
    \/ SolveBegin
    \/ SolveCheck
    \/ SolveReport
    \/ BuildPatches
    \/ PostEnter
    \/ PostPoint
    \/ PostReturn
    \/ WriteVtk
    \/ RunReturn

Spec == Init /\ [][Next]_vars

(***************************************************************************)
(* The post-processor called directly, for both instantiations and for     *)
(* every number of evaluation points up to MaxPoints, zero included.  The  *)
(* 3-D instantiation, which main() leaves disabled, is given one point     *)
(* fewer: its inputs are three times as many per point.                    *)
(***************************************************************************)
PointsFor(d) == IF d = 2 THEN MaxPoints ELSE MaxPoints - 1

InitPost ==
    /\ pc = "pp_enter"
    /\ ret = "pp_done"
    /\ dim \in {2, 3}
    /\ debug \in BOOLEAN
    /\ exc = "none"
    /\ oob = FALSE
    /\ call = 0
    /\ trace = <<>>
    /\ console = <<>>
    /\ triangulation = [level |-> 0, active |-> {}, n_cells |-> 0]
    /\ n_dofs = 0
    /\ sys = [matrix |-> "empty", solution |-> "empty"]
    /\ cell = 0
    /\ cg_step = 0
    /\ vtk = NoFile
    /\ n_quadrature_points \in 0..PointsFor(dim)
    /\ uh = <<>>
    /\ duh = <<>>
    /\ computed_quantities = [i \in 1..n_quadrature_points |-> ZeroVector(dim)]
    /\ q = 0
    /\ table = 0
    /\ system_matrix = NoSystem
    /\ system_rhs = NoSystem
    /\ solution = NoSystem
    /\ boundary_values = NoSystem
    /\ bv_done = 0
    /\ cgv = NoSystem

NextPost ==
    \/ PostEnter
    \/ PostPoint
    \/ PostReturn

SpecPost == InitPost /\ [][NextPost]_vars

(***************************************************************************)
(* assemble_system and solve with the matrix, the right-hand side and the  *)
(* solution spelled out, on a mesh of AsmRefinements global refinements.   *)
(*                                                                         *)
(* FEValues is library code: the shape gradients, shape values and JxW     *)
(* weights it returns are inputs of assemble_system.  All cells of the     *)
(* uniform mesh are congruent, so one table serves every cell; the table   *)
(* is drawn from a family of integer tables.                               *)
(*                                                                         *)
(* The solution vector is kept in a zero abstraction: an entry is "zero"   *)
(* when it is exactly 0.0 and "any" when nothing is known about it.        *)
(***************************************************************************)
\* the number of global refinements of the small mesh
AsmRefinements == 1
\* the number of FEValues tables
NumTables == 6
\* the largest number of CG steps taken on the small system
AsmSteps == 2

\* QGauss<dim> quadrature_formula(2), line 199
gauss_points == 2

RECURSIVE refine_global(_, _)
refine_global(t, times) ==
    IF times = 0 THEN t ELSE refine_global(refine_once(t), times - 1)

\* fe.dofs_per_cell for FE_Q<dim>(p)
dofs_per_cell(d) == (fe_degree + 1) ^ d
\* quadrature_formula.size()
n_q_points(d) == gauss_points ^ d

\* the grid position of local node i (0-based) of cell c: tensor-product order
LocalNode(c, i) ==
    [k \in DOMAIN c |->
        fe_degree * c[k] + ((i \div ((fe_degree + 1) ^ (k - 1))) % (fe_degree + 1))]

\* cell->get_dof_indices (local_dof_indices), line 238
\* index is the map distribute_dofs has built
get_dof_indices(index, c) ==
    [i \in 0..(dofs_per_cell(Len(c)) - 1) |-> index[LocalNode(c, i)]]

\* the cells in the order of the active cell iterator
CellAt(t, n) == CHOOSE c \in t.active : GlobalIndex(c, 2 ^ t.level) = n

\* DoFTools::make_sparsity_pattern: the pairs of DOFs that share a cell
make_sparsity_pattern(t) ==
    LET index == distribute_dofs(t, fe_degree)
    IN  UNION {LET li == get_dof_indices(index, c)
               IN  {<<li[i], li[j]>> : i \in DOMAIN li, j \in DOMAIN li} :
               c \in t.active}

\* fe_values.shape_grad (i, q_index) for the cell at hand
shape_grad(i, q_index) ==
    [k \in 1..dim |-> ((table * (i + 1) + q_index * (k + 1) + k) % 5) - 2]
\* fe_values.shape_value (i, q_index)
shape_value(i, q_index) == (table + i + q_index) % 3
\* fe_values.JxW (q_index)
JxW(q_index) == 1 + ((table + q_index) % 2)

\* Tensor<1,dim> * Tensor<1,dim>
Dot(a, b) ==
    LET RECURSIVE Sum(_)
        Sum(k) == IF k = 0 THEN 0 ELSE a[k] * b[k] + Sum(k - 1)
    IN  Sum(Len(a))

\* RightHandSide<dim>::value, lines 107-114
RightHandSide_value(p) == 1

\* a BoundaryValues<dim>::value that returns 1
BoundaryValues_one(p) == 1
\* BoundaryValues<dim>::value, lines 117-122
BoundaryValues_value(p) == 0

\* lines 229-231 with the gradient of j taken at quadrature point 0
cell_matrix_fixed_q(i, j) ==
    LET RECURSIVE Sum(_)
        Sum(n) == IF n = 0 THEN 0
                  ELSE Dot(shape_grad(i, n - 1), shape_grad(j, 0)) * JxW(n - 1)
                       + Sum(n - 1)
    IN  Sum(n_q_points(dim))
\* cell_matrix(i,j) after the loops of lines 225-236
cell_matrix(i, j) ==
    LET RECURSIVE Sum(_)
        Sum(n) == IF n = 0 THEN 0
                  ELSE Dot(shape_grad(i, n - 1), shape_grad(j, n - 1)) * JxW(n - 1)
                       + Sum(n - 1)
    IN  Sum(n_q_points(dim))

\* cell_rhs(i) after the loops of lines 225-236
cell_rhs(i) ==
    LET RECURSIVE Sum(_)
        Sum(n) == IF n = 0 THEN 0
                  ELSE shape_value(i, n - 1) * RightHandSide_value(n - 1) * JxW(n - 1)
                       + Sum(n - 1)
    IN  Sum(n_q_points(dim))

\* system_matrix(r, c): zero outside the sparsity pattern
el(A, r, c) == IF <<r, c>> \in DOMAIN A THEN A[<<r, c>>] ELSE 0

\* lines 239-247: the local matrix and vector are added into the global ones;
\* local_dof_indices names each of its indices once
ScatterMatrix(A, li) ==
    [rc \in DOMAIN A |->
        IF (\E i \in DOMAIN li : li[i] = rc[1]) /\ (\E j \in DOMAIN li : li[j] = rc[2])
        THEN A[rc] + cell_matrix(CHOOSE i \in DOMAIN li : li[i] = rc[1],
                                 CHOOSE j \in DOMAIN li : li[j] = rc[2])
        ELSE A[rc]]

ScatterRhs(b, li) ==
    [r \in DOMAIN b |->
        IF \E i \in DOMAIN li : li[i] = r
        THEN b[r] + cell_rhs(CHOOSE i \in DOMAIN li : li[i] = r)
        ELSE b[r]]

\* the boundary indicator of interpolate_boundary_values, line 253
boundary_component == 0

\* the boundary id hyper_cube gives a face of the domain boundary
hyper_cube_boundary_id == 0

\* the grid positions of the nodes on faces with boundary id b
NodesOnBoundary(t, b) ==
    IF b # hyper_cube_boundary_id THEN {}
    ELSE {x \in AllNodes(t, fe_degree) :
            \E k \in DOMAIN x : x[k] = 0 \/ x[k] = Width(t.level, fe_degree) - 1}

\* VectorTools::interpolate_boundary_values, lines 251-255
interpolate_boundary_values(t, b) ==
    LET index == distribute_dofs(t, fe_degree)
        on == NodesOnBoundary(t, b)
    IN  [i \in {index[x] : x \in on} |->
            BoundaryValues_value(CHOOSE x \in on : index[x] = i)]

\* the k-th key (0-based) of a std::map, in the order of its iteration
KeyAt(m, k) == CHOOSE i \in DOMAIN m : Cardinality({j \in DOMAIN m : j < i}) = k

\* the first nonzero diagonal entry of A, 1 if there is none
first_nonzero_diagonal_entry(A, n) ==
    IF \E i \in 0..(n - 1) : el(A, i, i) # 0
    THEN LET i == CHOOSE i \in 0..(n - 1) :
                     /\ el(A, i, i) # 0
                     /\ \A j \in 0..(n - 1) : j < i => el(A, j, j) = 0
         IN  el(A, i, i)
    ELSE 1

\* the diagonal entry apply_boundary_values leaves in row i
KeptDiagonal(A, n, i) ==
    IF el(A, i, i) # 0 THEN el(A, i, i) ELSE first_nonzero_diagonal_entry(A, n)

\* MatrixTools::apply_boundary_values for one entry (i, v) of the map: the matrix
EliminateMatrix(A, n, i) ==
    [rc \in DOMAIN A |->
        IF rc[1] = i /\ rc[2] = i THEN KeptDiagonal(A, n, i)
        ELSE IF rc[1] = i \/ rc[2] = i THEN 0
        ELSE A[rc]]

\* ... the right-hand side
EliminateRhs(A, b, n, i, v) ==
    [r \in DOMAIN b |->
        IF r = i THEN v * KeptDiagonal(A, n, i)
        ELSE b[r] - el(A, r, i) * v]

\* the zero abstraction of a number
AbsOf(v) == IF v = 0 THEN "zero" ELSE "any"

\* (A v)[i] in the zero abstraction
RowTimes(A, v, i) ==
    IF \A j \in DOMAIN v : el(A, i, j) = 0 \/ v[j] = "zero" THEN "zero" ELSE "any"

\* x + a * y for an unknown scalar a
Axpy(x, y) == [i \in DOMAIN x |-> IF x[i] = "zero" /\ y[i] = "zero" THEN "zero" ELSE "any"]

\* b - A x
Residual(A, b, x) ==
    [i \in DOMAIN x |->
        IF b[i] = 0 /\ RowTimes(A, x, i) = "zero" THEN "zero" ELSE "any"]

\* PreconditionSSOR with relaxation 1.0: a forward and a backward sweep
Forward(A, src) ==
    LET RECURSIVE Sweep(_, _)
        Sweep(y, i) ==
            IF i \notin DOMAIN src THEN y
            ELSE Sweep([y EXCEPT ![i] =
                          IF /\ src[i] = "zero"
                             /\ el(A, i, i) # 0
                             /\ \A j \in DOMAIN src : j < i => (el(A, i, j) = 0 \/ y[j] = "zero")
                          THEN "zero" ELSE "any"], i + 1)
    IN  Sweep(src, 0)

Backward(A, src) ==
    LET RECURSIVE Sweep(_, _)
        Sweep(y, i) ==
            IF i \notin DOMAIN src THEN y
            ELSE Sweep([y EXCEPT ![i] =
                          IF /\ src[i] = "zero"
                             /\ el(A, i, i) # 0
                             /\ \A j \in DOMAIN src : j > i => (el(A, i, j) = 0 \/ y[j] = "zero")
                          THEN "zero" ELSE "any"], i - 1)
    IN  Sweep(src, Cardinality(DOMAIN src) - 1)

precondition_SSOR(A, src) == Backward(A, Forward(A, src))

\* A p
Times(A, p) == [i \in DOMAIN p |-> RowTimes(A, p, i)]

AsmMesh == refine_global(hyper_cube(2), AsmRefinements)

\* the state after setup_system on the small mesh
InitAsm ==
    /\ pc = "cell_loop"
    /\ ret = "write_vtk"
    /\ dim = 2
    /\ debug \in BOOLEAN
    /\ exc = "none"
    /\ oob = FALSE
    /\ call = 3
    /\ trace = SubSeq(StageOrder, 1, 4)
    /\ console = <<>>
    /\ triangulation = AsmMesh
    /\ n_dofs = Cardinality(DOMAIN distribute_dofs(AsmMesh, fe_degree))
    /\ sys = [matrix |-> "allocated", solution |-> "zero"]
    /\ cell = 0
    /\ cg_step = 0
    /\ vtk = NoFile
    /\ n_quadrature_points = 0
    /\ uh = <<>>
    /\ duh = <<>>
    /\ computed_quantities = <<>>
    /\ q = 0
    /\ table \in 1..NumTables
    /\ system_matrix = [rc \in make_sparsity_pattern(AsmMesh) |-> 0]
    /\ system_rhs = [i \in 0..(n_dofs - 1) |-> 0]
    /\ solution = [i \in 0..(n_dofs - 1) |-> "zero"]
    /\ boundary_values = NoSystem
    /\ bv_done = 0
    /\ cgv = NoSystem

asm_frame == <<ret, dim, debug, exc, oob, call, console, triangulation, n_dofs, vtk, table>>

\* lines 219-248: the next cell is integrated and scattered
AsmCell ==
    /\ pc = "cell_loop"
    /\ cell < Cardinality(triangulation.active)
    /\ LET li == get_dof_indices(distribute_dofs(triangulation, fe_degree),
                                 CellAt(triangulation, cell))
       IN  /\ system_matrix' = ScatterMatrix(system_matrix, li)
           /\ system_rhs' = ScatterRhs(system_rhs, li)
    /\ cell' = cell + 1
    /\ sys' = [sys EXCEPT !.matrix = "assembling"]
    /\ UNCHANGED <<pc, trace, cg_step, solution, boundary_values, bv_done, cgv>>
    /\ UNCHANGED asm_frame
    /\ UNCHANGED post_vars

\* lines 251-255: the cell loop has ended; the boundary map is filled
AsmInterpolate ==
    /\ pc = "cell_loop"
    /\ ~(cell < Cardinality(triangulation.active))
    /\ boundary_values' = interpolate_boundary_values(triangulation, boundary_component)
    /\ bv_done' = 0
    /\ sys' = [sys EXCEPT !.matrix = "assembled"]
    /\ Enter("SystemAssembled")
    /\ pc' = "eliminate"
    /\ UNCHANGED <<cell, cg_step, system_matrix, system_rhs, solution, cgv>>
    /\ UNCHANGED asm_frame
    /\ UNCHANGED post_vars

\* lines 256-259: apply_boundary_values treats the next entry of the map
AsmEliminate ==
    /\ pc = "eliminate"
    /\ bv_done < Cardinality(DOMAIN boundary_values)
    /\ LET i == KeyAt(boundary_values, bv_done)
           v == boundary_values[i]
       IN  /\ system_matrix' = EliminateMatrix(system_matrix, n_dofs, i)
           /\ system_rhs' = EliminateRhs(system_matrix, system_rhs, n_dofs, i, v)
           /\ solution' = [solution EXCEPT ![i] = AbsOf(v)]
    /\ bv_done' = bv_done + 1
    /\ UNCHANGED <<pc, trace, sys, cell, cg_step, boundary_values, cgv>>
    /\ UNCHANGED asm_frame
    /\ UNCHANGED post_vars

\* assemble_system returns; solve, lines 267-273, up to the first residual
AsmSolveBegin ==
    /\ pc = "eliminate"
    /\ ~(bv_done < Cardinality(DOMAIN boundary_values))
    /\ LET r == Residual(system_matrix, system_rhs, solution)
           z == precondition_SSOR(system_matrix, r)
       IN  cgv' = [r |-> r, p |-> z]
    /\ sys' = [matrix |-> "eliminated", solution |-> "preset"]
    /\ Enter("BoundaryApplied")
    /\ cg_step' = 0
    /\ pc' = "asm_cg"
    /\ UNCHANGED <<cell, system_matrix, system_rhs, solution, boundary_values, bv_done>>
    /\ UNCHANGED asm_frame
    /\ UNCHANGED post_vars

\* line 273: the residual is checked; unless it is small, one more CG step
AsmSolveCheck ==
    /\ pc = "asm_cg"
    /\ \E small \in BOOLEAN :
         IF small
         THEN /\ pc' = "asm_solved"
              /\ sys' = [sys EXCEPT !.solution = "converged"]
              /\ Enter("Solved")
              /\ UNCHANGED <<cg_step, solution, cgv>>
         ELSE /\ cg_step < AsmSteps
              /\ cg_step' = cg_step + 1
              /\ LET x == Axpy(solution, cgv.p)
                     r == Axpy(cgv.r, Times(system_matrix, cgv.p))
                     z == precondition_SSOR(system_matrix, r)
                 IN  /\ solution' = x
                     /\ cgv' = [r |-> r, p |-> Axpy(z, cgv.p)]
              /\ sys' = [sys EXCEPT !.solution = "iterate"]
              /\ UNCHANGED <<pc, trace>>
    /\ UNCHANGED <<cell, system_matrix, system_rhs, boundary_values, bv_done>>
    /\ UNCHANGED asm_frame
    /\ UNCHANGED post_vars

NextAsm ==
    \/ AsmCell
    \/ AsmInterpolate
    \/ AsmEliminate
    \/ AsmSolveBegin
    \/ AsmSolveCheck

SpecAsm == InitAsm /\ [][NextAsm]_vars

(***************************************************************************)
(* The properties.                                                         *)
(***************************************************************************)
\* the points whose pass through the loop body has run to its end
Completed == 1..q
\* the points whose inputs the loop has read
Read == 1..Len(uh)

SMinAt(i) == computed_quantities[i][dim + 1]
SMaxAt(i) == computed_quantities[i][dim + 2]
RadicandAt(i) == Radicand(uh[i], duh[i])
NoWarning == \A n \in 1..Len(console) : console[n][1] # "warning"

(* C1: the stages are entered in the order Start, MeshBuilt,               *)
(* DOFsDistributed, SystemAllocated, SystemAssembled, BoundaryApplied,     *)
(* Solved, OutputWritten, Done: the stages entered so far are always an    *)
(* initial piece of that list (none skipped, none entered twice, none      *)
(* before its predecessor), each stage has its predecessor's output when   *)
(* it is entered, and a run that is done has entered every stage.          *)
C1_StageOrder ==
    /\ Len(trace) <= Len(StageOrder)
    /\ trace = SubSeq(StageOrder, 1, Len(trace))
    /\ (pc = "done" => trace = StageOrder)
    /\ (Len(trace) >= 2 => triangulation.level = n_refinements)
    /\ (Len(trace) >= 3 => n_dofs > 0)
    /\ (Len(trace) >= 4 => sys.matrix # "empty")
    /\ (Len(trace) >= 5 => sys.matrix \in {"assembled", "eliminated"})
    /\ (Len(trace) >= 6 => sys.matrix = "eliminated")
    /\ (Len(trace) >= 7 => sys.solution = "converged")
    /\ (Len(trace) >= 8 => vtk.written)

C1_Witness == pc = "done" /\ trace = StageOrder /\ vtk.written

(* C2, as claimed: when the CG iteration reaches the cap of 1000 steps     *)
(* without the residual becoming small, the failure is not fatal.          *)
C2_NonConvergenceNotFatal ==
    sys.solution = "unconverged" => (exc = "none" /\ pc # "terminated")

(* C2, amended: when the CG iteration reaches the cap without the residual *)
(* becoming small, solver.solve throws SolverControl::NoConvergence, which *)
(* nothing catches: the program ends at step 1000 with BoundaryApplied the *)
(* last stage entered, the CG line is not printed and no file is written.  *)
(* A file that is written holds a converged solution.                      *)
C2_NonConvergenceFatal ==
    /\ sys.solution = "unconverged" =>
          /\ pc = "terminated"
          /\ exc = "SolverControl::NoConvergence"
          /\ cg_step = max_steps
          /\ trace = SubSeq(StageOrder, 1, 6)
          /\ \A n \in 1..Len(console) :
                console[n][1] # "CG iterations needed to obtain convergence."
          /\ ~vtk.written
    /\ vtk.written => vtk.solution = "converged"

C2_Witness == sys.solution = "unconverged" /\ cg_step = max_steps

C4_ClampWarnContinue ==
    \A i \in Read : RadicandAt(i) < 0 =>
        /\ exc = "none"
        /\ SMinAt(i) = Num(0 - l1(duh[i]))
        /\ SMaxAt(i) = Num(l1(duh[i]))
        /\ ~NoWarning

(* C4, amended: at a point with a negative radicand, a build without the   *)
(* checks clamps the radicand to 0 (sMin = -sum|g[k]|, sMax = +sum|g[k]|)  *)
(* and goes on without a warning; a build with the checks aborts at that   *)
(* point with "Sqrt of negative!" before sMin and sMax are stored, and no  *)
(* file is written.  No warning is emitted in either build.                *)
C4_ClampOrAbort ==
    /\ NoWarning
    /\ \A i \in Read : RadicandAt(i) < 0 =>
          IF debug
          THEN /\ pc = "terminated"
               /\ exc = "ExcMessage: Sqrt of negative!"
               /\ i = q + 1
               /\ SMinAt(i) = Zero
               /\ SMaxAt(i) = Zero
               /\ ~vtk.written
          ELSE /\ exc = "none"
               /\ SMinAt(i) = Num(0 - l1(duh[i]))
               /\ SMaxAt(i) = Num(l1(duh[i]))

C4_Witness ==
    /\ ~debug
    /\ pc = "done"
    /\ vtk.written
    /\ \E i \in 1..Len(vtk.data) :
          /\ RadicandAt(i) < 0
          /\ i < Len(vtk.data)
          /\ vtk.data[i][dim + 1] = Num(0 - l1(duh[i]))

(* C5: the post-processor declares dim + 2 components named "Direction"    *)
(* (dim times), "sMin", "sMax", interpreted as vector component (dim       *)
(* times), scalar, scalar; the two lists and every output vector have      *)
(* length dim + 2.                                                         *)
C5_NamesAndInterpretation ==
    /\ get_names(dim) = [i \in 1..dim |-> "Direction"] \o <<"sMin", "sMax">>
    /\ get_data_component_interpretation(dim) =
          [i \in 1..dim |-> "component_is_part_of_vector"]
              \o <<"component_is_scalar", "component_is_scalar">>
    /\ Len(get_names(dim)) = dim + 2
    /\ Len(get_data_component_interpretation(dim)) = dim + 2
    /\ \A i \in 1..Len(computed_quantities) : Len(computed_quantities[i]) = dim + 2

C10_NoAccessOutOfBounds == ~oob

(* C6: after the Dirichlet elimination every boundary DOF i (a DOF whose   *)
(* location has |x_k| = 1 for some k) has the prescribed value 0, the      *)
(* off-diagonal entries of row i and of column i of A are zero, A[i,i] is  *)
(* not zero and b[i] = 0 * A[i,i]; during and after the solve x[i] is      *)
(* exactly zero.                                                           *)
C6_BoundaryRows ==
    pc \in {"asm_cg", "asm_solved"} =>
        LET index == distribute_dofs(triangulation, fe_degree)
            w == Width(triangulation.level, fe_degree)
            B == {index[x] : x \in {y \in DOMAIN index :
                                      \E k \in DOMAIN y : y[k] = 0 \/ y[k] = w - 1}}
        IN  /\ DOMAIN boundary_values = B
            /\ \A i \in B :
                  /\ boundary_values[i] = 0
                  /\ \A j \in 0..(n_dofs - 1) :
                        j # i => /\ el(system_matrix, i, j) = 0
                                 /\ el(system_matrix, j, i) = 0
                  /\ el(system_matrix, i, i) # 0
                  /\ system_rhs[i] = boundary_values[i] * el(system_matrix, i, i)
                  /\ solution[i] = "zero"

C6_Witness ==
    /\ pc = "asm_solved"
    /\ cg_step > 0
    /\ \E i \in DOMAIN solution : solution[i] = "any"
    /\ \E i \in DOMAIN boundary_values : solution[i] = "zero"

(* C7: A is symmetric once the cell loop has scattered every local matrix, *)
(* and it is symmetric after the elimination of the boundary DOFs.         *)
C7_Symmetric ==
    (pc \in {"eliminate", "asm_cg", "asm_solved"}
       \/ (pc = "cell_loop" /\ cell = Cardinality(triangulation.active))) =>
        \A i \in 0..(n_dofs - 1), j \in 0..(n_dofs - 1) :
            el(system_matrix, i, j) = el(system_matrix, j, i)

C7_Witness ==
    /\ pc = "asm_cg"
    /\ \E rc \in DOMAIN system_matrix : rc[1] # rc[2] /\ system_matrix[rc] # 0
    /\ \E i \in DOMAIN boundary_values : el(system_matrix, i, i) # 0

(* C8: the mesh of the 2-D run has 256 active cells and the DOF map has    *)
(* 1089 = 33^2 indices: the nodes of the cells and the indices they are    *)
(* given correspond one to one, so a node shared by several cells has one  *)
(* index and n_dofs is the number of distinct nodes.                       *)
C8_MeshAndDofs ==
    /\ Len(trace) >= 2 => Cardinality(triangulation.active) = 256
    /\ Len(trace) >= 3 => n_dofs = 1089
    /\ pc = "setup_alloc" =>
          LET cells == triangulation.active
              local == 0..(dofs_per_cell(dim) - 1)
              index == distribute_dofs(triangulation, fe_degree)
              pairs == UNION {{<<LocalNode(c, i), get_dof_indices(index, c)[i]>> :
                                  i \in local} : c \in cells}
              nodes == {pr[1] : pr \in pairs}
              indices == {pr[2] : pr \in pairs}
          IN  /\ Cardinality(local) = 9
              /\ Cardinality(pairs) = n_dofs
              /\ Cardinality(nodes) = n_dofs
              /\ indices = 0..(n_dofs - 1)
              /\ n_dofs = 33 * 33

C8_Witness ==
    /\ pc = "setup_alloc"
    /\ Cardinality(triangulation.active) = 256
    /\ n_dofs = 1089

====
